---- MODULE Spec2Model ----
(***************************************************************************)
(* Model of src/main.py: the matrix validator (_validate_matrix,           *)
(* _ensure_number), the multiplier (multiply_matrices) and the command     *)
(* line entry point (main, _load_matrix_from_json_arg, _print_matrix).     *)
(*                                                                         *)
(* Python objects live in a heap: a list is an object with an address,     *)
(* and a matrix is a list whose elements are references to row lists, so   *)
(* that copying and aliasing are visible.  A Python value is a record      *)
(* [t, k, v]: its type t, and for a float its kind k (finite, negative     *)
(* zero, nan, infinity).  Finite floats are integer-valued here, so all    *)
(* float arithmetic of the model is exact.                                 *)
(***************************************************************************)
EXTENDS Integers, Sequences, FiniteSets, TLC

\* ------------------------------------------------------------------ bounds

\* The largest number of cells (rows * columns) of an enumerated 0/1 matrix.
MaxCells == 4

\* ------------------------------------------------------------------ values

IntV(n) == [t |-> "int", k |-> "fin", v |-> n]
FloatV(n) == [t |-> "float", k |-> "fin", v |-> n]
NegZero == [t |-> "float", k |-> "nzero", v |-> 0]
NaN == [t |-> "float", k |-> "nan", v |-> 0]
Inf(s) == [t |-> "float", k |-> "inf", v |-> s]
BoolV(n) == [t |-> "bool", k |-> "fin", v |-> n]
StrV == [t |-> "str", k |-> "fin", v |-> 0]
NoneV == [t |-> "none", k |-> "fin", v |-> 0]
DictV == [t |-> "dict", k |-> "fin", v |-> 0]
ListRef(addr) == [t |-> "list", k |-> "ref", v |-> addr]

\* The sign of a number: -1 for negative numbers and for negative zero.
Sign(x) == IF x.k = "nzero" \/ x.v < 0 THEN -1 ELSE 1

\* Python's x == 0 for an int or a float (nan == 0 is False).
IsZero(x) == x.k \in {"fin", "nzero"} /\ x.v = 0

\* Python's x * y for ints and floats.
Mul(x, y) ==
    IF x.t = "int" /\ y.t = "int" THEN IntV(x.v * y.v)
    ELSE IF x.k = "nan" \/ y.k = "nan" THEN NaN
    ELSE IF x.k = "inf" \/ y.k = "inf"
         THEN IF IsZero(x) \/ IsZero(y) THEN NaN ELSE Inf(Sign(x) * Sign(y))
    ELSE IF x.v * y.v # 0 THEN FloatV(x.v * y.v)
    ELSE IF Sign(x) * Sign(y) < 0 THEN NegZero ELSE FloatV(0)

\* Python's x + y for ints and floats.
Add(x, y) ==
    IF x.t = "int" /\ y.t = "int" THEN IntV(x.v + y.v)
    ELSE IF x.k = "nan" \/ y.k = "nan" THEN NaN
    ELSE IF x.k = "inf" /\ y.k = "inf"
         THEN IF x.v = y.v THEN x ELSE NaN
    ELSE IF x.k = "inf" THEN x
    ELSE IF y.k = "inf" THEN y
    ELSE IF x.v + y.v # 0 THEN FloatV(x.v + y.v)
    ELSE IF x.k = "nzero" /\ y.k = "nzero" THEN NegZero ELSE FloatV(0)

\* ------------------------------------------------------------------ errors

NoExc == [type |-> "none", msg |-> ""]
TypeError(msg) == [type |-> "TypeError", msg |-> msg]
ValueError(msg) == [type |-> "ValueError", msg |-> msg]

MsgNotSequence(name) == name \o " must be a sequence of sequences of numbers"
MsgNotNumber(name) == name \o " must contain only numbers (int or float)"
MsgNoRows(name) == name \o " must have at least one row"
MsgEmptyRow(name) == name \o " rows must be non-empty"
MsgNotRectangular(name) == name \o " must be rectangular (all rows same length)"

ShapeText(rows, cols) == ToString(rows) \o "x" \o ToString(cols)

MsgIncompatibleSwapped(a_rows, a_cols, b_rows, b_cols) ==
    "Incompatible shapes for multiplication: left is " \o ShapeText(a_cols, a_rows)
        \o ", right is " \o ShapeText(b_cols, b_rows)

\* The message of the ValueError of line 72.
MsgIncompatible(a_rows, a_cols, b_rows, b_cols) ==
    "Incompatible shapes for multiplication: left is " \o ShapeText(a_rows, a_cols)
        \o ", right is " \o ShapeText(b_rows, b_cols)

\* -------------------------------------------------------------------- heap

\* A heap is a sequence of list objects; the address of an object is its
\* index.  A list object is the sequence of its elements.
Alloc(h, obj) == [heap |-> Append(h, obj), value |-> ListRef(Len(h) + 1)]

\* The elements of a sequence: of the list that x refers to; the elements
\* of a string are strings.
Items(h, x) == IF x.t = "str" THEN <<StrV>> ELSE h[x.v]

\* A matrix (a list of row lists) read as a sequence of sequences of values.
Deref(h, m) == [p \in 1..Len(Items(h, m)) |-> Items(h, Items(h, m)[p])]

\* --------------------------------------------------------------- validator

IsSequenceOrStr(x) == x.t \in {"list", "str"}

\* isinstance(x, Sequence) and not isinstance(x, (bytes, str)): of the
\* values of the model, lists and strings are Sequences.
IsSequence(x) == x.t \in {"list", "str"} /\ x.t \notin {"str"}

EnsureNumberAnyInt(value, name) ==
    IF value.t \in {"int", "float", "bool"}
    THEN [exc |-> NoExc, value |-> value]
    ELSE [exc |-> TypeError(MsgNotNumber(name)), value |-> NoneV]

\* _ensure_number: isinstance(value, (int, float)) holds of bool too, which
\* is a subclass of int, and bool is then excluded.
EnsureNumber(value, name) ==
    IF value.t \in {"int", "float", "bool"} /\ value.t # "bool"
    THEN [exc |-> NoExc, value |-> value]
    ELSE [exc |-> TypeError(MsgNotNumber(name)), value |-> NoneV]

\* [_ensure_number(x, name) for x in row]: the first element that is no
\* number raises.
ConvertRow(cells, name) ==
    LET bad == {q \in 1..Len(cells) : EnsureNumber(cells[q], name).exc.type # "none"}
    IN  IF bad # {}
        THEN [exc |-> EnsureNumber(cells[CHOOSE q \in bad : \A q2 \in bad : q <= q2], name).exc,
              row |-> <<>>]
        ELSE [exc |-> NoExc,
              row |-> [q \in 1..Len(cells) |-> EnsureNumber(cells[q], name).value]]

RECURSIVE ScanRowsStructureFirst(_, _, _, _, _)
ScanRowsStructureFirst(h, matrix, p, name, rows) ==
    IF \E q \in 1..Len(Items(h, matrix)) : ~IsSequence(Items(h, matrix)[q])
    THEN [exc |-> TypeError(MsgNotSequence(name)), rows |-> rows]
    ELSE IF p > Len(Items(h, matrix)) THEN [exc |-> NoExc, rows |-> rows]
    ELSE LET conv == ConvertRow(Items(h, Items(h, matrix)[p]), name)
         IN  IF conv.exc.type # "none" THEN [exc |-> conv.exc, rows |-> rows]
             ELSE ScanRowsStructureFirst(h, matrix, p + 1, name, Append(rows, conv.row))

\* The loop "for row in matrix" of _validate_matrix from row p on: each row
\* is checked to be a sequence and then converted, before the next row is
\* looked at.
RECURSIVE ScanRows(_, _, _, _, _)
ScanRows(h, matrix, p, name, rows) ==
    IF p > Len(Items(h, matrix)) THEN [exc |-> NoExc, rows |-> rows]
    ELSE LET row == Items(h, matrix)[p]
         IN  IF ~IsSequence(row)
             THEN [exc |-> TypeError(MsgNotSequence(name)), rows |-> rows]
             ELSE LET conv == ConvertRow(Items(h, row), name)
                  IN  IF conv.exc.type # "none" THEN [exc |-> conv.exc, rows |-> rows]
                      ELSE ScanRows(h, matrix, p + 1, name, Append(rows, conv.row))

\* The heap after the copied rows and the list of them are allocated.
StoreRows(h, rows) ==
    Alloc(h \o rows, [p \in 1..Len(rows) |-> ListRef(Len(h) + p)])

CheckRowsNoRectangular(rows, name) ==
    LET row_lengths == {Len(rows[p]) : p \in 1..Len(rows)}
    IN  IF Len(rows) = 0 THEN ValueError(MsgNoRows(name))
        ELSE IF 0 \in row_lengths THEN ValueError(MsgEmptyRow(name))
        ELSE NoExc

\* The checks of _validate_matrix after its loop: at least one row, no
\* empty row, one row length.
CheckRows(rows, name) ==
    LET row_lengths == {Len(rows[p]) : p \in 1..Len(rows)}
    IN  IF Len(rows) = 0 THEN ValueError(MsgNoRows(name))
        ELSE IF 0 \in row_lengths THEN ValueError(MsgEmptyRow(name))
        ELSE IF Cardinality(row_lengths) # 1 THEN ValueError(MsgNotRectangular(name))
        ELSE NoExc

\* _validate_matrix(matrix, name): the exception raised, or the heap with
\* the defensive copy and the reference to it.  The lists built before an
\* exception are unreachable and are left out of the heap.
ValidateMatrix(h, matrix, name) ==
    IF ~IsSequence(matrix)
    THEN [exc |-> TypeError(MsgNotSequence(name)), heap |-> h, value |-> NoneV]
    ELSE LET scan == ScanRows(h, matrix, 1, name, <<>>)
         IN  IF scan.exc.type # "none"
             THEN [exc |-> scan.exc, heap |-> h, value |-> NoneV]
             ELSE IF CheckRows(scan.rows, name).type # "none"
             THEN [exc |-> CheckRows(scan.rows, name), heap |-> h, value |-> NoneV]
             ELSE [exc |-> NoExc, heap |-> StoreRows(h, scan.rows).heap,
                   value |-> StoreRows(h, scan.rows).value]

\* -------------------------------------------------------------- multiplier

ZeroMatrixSharedRow(h, a_rows, b_cols) ==
    Alloc(Append(h, [q \in 1..b_cols |-> IntV(0)]),
          [p \in 1..a_rows |-> ListRef(Len(h) + 1)])

\* [[0 for _ in range(b_cols)] for _ in range(a_rows)]: a fresh list for
\* every row.
ZeroMatrix(h, a_rows, b_cols) ==
    StoreRows(h, [p \in 1..a_rows |-> [q \in 1..b_cols |-> IntV(0)]])

SkipsNonPositive(aik) == aik.k \in {"fin", "nzero"} /\ aik.v <= 0

\* if aik == 0: continue
Skips(aik) == IsZero(aik)

AccumulatedAssign(h, row_i, j, aik, bkj) ==
    [h EXCEPT ![row_i.v][j + 1] = Mul(aik, bkj)]

\* row_i[j] += aik * b_k[j]
Accumulated(h, row_i, j, aik, bkj) ==
    [h EXCEPT ![row_i.v][j + 1] = Add(@, Mul(aik, bkj))]

\* ------------------------------------------------------------------- state

VARIABLES
    pc,       \* the statement the program is at
    entry,    \* "lib": multiply_matrices is called; "cli": main is called
    argv,     \* main's argv (the program name first)
    left,     \* multiply_matrices' argument left (main's a)
    right,    \* multiply_matrices' argument right (main's b)
    a,        \* the validated copy of left
    b,        \* the validated copy of right
    result,   \* the result matrix
    i, k, j,  \* the loop indices of multiply_matrices (from 0, as in the source)
    heap,     \* the list objects
    heap0,    \* the heap when multiply_matrices was called
    stdout,   \* the lines printed
    outcome   \* how the call ended

vars == <<pc, entry, argv, left, right, a, b, result, i, k, j, heap, heap0,
          stdout, outcome>>

NoOutcome == [kind |-> "none", code |-> 0, type |-> "none", msg |-> ""]
Returned(code) == [kind |-> "return", code |-> code, type |-> "none", msg |-> ""]
Raised(exc) == [kind |-> "raise", code |-> 1, type |-> exc.type, msg |-> exc.msg]
Exited(msg) == [kind |-> "exit", code |-> 1, type |-> "SystemExit", msg |-> msg]

\* The locals a_rows, a_cols, b_rows, b_cols of multiply_matrices.
a_rows == Len(Items(heap, a))
a_cols == Len(Items(heap, Items(heap, a)[1]))
b_rows == Len(Items(heap, b))
b_cols == Len(Items(heap, Items(heap, b)[1]))

\* The locals aik, row_i and b_k of the loop body.
aik == Items(heap, Items(heap, a)[i + 1])[k + 1]
row_i == Items(heap, result)[i + 1]
b_k == Items(heap, Items(heap, b)[k + 1])

\* An exception of multiply_matrices: nothing catches it, neither in
\* multiply_matrices nor in main, so it ends the call.
Raise(exc) ==
    /\ pc' = "done"
    /\ outcome' = Raised(exc)

\* a = _validate_matrix(left, "left")
ValidateLeft ==
    /\ pc = "validate_left"
    /\ LET r == ValidateMatrix(heap, left, "left")
       IN  IF r.exc.type # "none"
           THEN Raise(r.exc) /\ UNCHANGED <<a, heap>>
           ELSE /\ a' = r.value
                /\ heap' = r.heap
                /\ pc' = "validate_right"
                /\ UNCHANGED outcome
    /\ UNCHANGED <<entry, argv, left, right, b, result, i, k, j, heap0, stdout>>

\* b = _validate_matrix(right, "right")
ValidateRight ==
    /\ pc = "validate_right"
    /\ LET r == ValidateMatrix(heap, right, "right")
       IN  IF r.exc.type # "none"
           THEN Raise(r.exc) /\ UNCHANGED <<b, heap>>
           ELSE /\ b' = r.value
                /\ heap' = r.heap
                /\ pc' = "check_shapes"
                /\ UNCHANGED outcome
    /\ UNCHANGED <<entry, argv, left, right, a, result, i, k, j, heap0, stdout>>

\* if a_cols != b_rows: raise ValueError(...)
ShapeMismatch ==
    /\ pc = "check_shapes"
    /\ a_cols # b_rows
    /\ Raise(ValueError(MsgIncompatible(a_rows, a_cols, b_rows, b_cols)))
    /\ UNCHANGED <<entry, argv, left, right, a, b, result, i, k, j, heap, heap0, stdout>>

\* The result is allocated and the loops start.
AllocateResult ==
    /\ pc = "check_shapes"
    /\ a_cols = b_rows
    /\ heap' = ZeroMatrix(heap, a_rows, b_cols).heap
    /\ result' = ZeroMatrix(heap, a_rows, b_cols).value
    /\ i' = 0 /\ k' = 0 /\ j' = 0
    /\ pc' = "loop"
    /\ UNCHANGED <<entry, argv, left, right, a, b, heap0, stdout, outcome>>

\* The next iteration of "for k" (and of "for i" after the last k).
NextIK ==
    /\ IF k + 1 < a_cols THEN i' = i /\ k' = k + 1 ELSE i' = i + 1 /\ k' = 0
    /\ j' = 0

\* aik == 0: the iteration of k is skipped.
SkipZero ==
    /\ pc = "loop"
    /\ i < a_rows
    /\ Skips(aik)
    /\ NextIK
    /\ UNCHANGED <<pc, entry, argv, left, right, a, b, result, heap, heap0, stdout, outcome>>

\* One iteration of "for j": row_i[j] += aik * b_k[j].
Accumulate ==
    /\ pc = "loop"
    /\ i < a_rows
    /\ ~Skips(aik)
    /\ heap' = Accumulated(heap, row_i, j, aik, b_k[j + 1])
    /\ IF j + 1 < b_cols THEN j' = j + 1 /\ UNCHANGED <<i, k>> ELSE NextIK
    /\ UNCHANGED <<pc, entry, argv, left, right, a, b, result, heap0, stdout, outcome>>

\* return result, to the caller of the library function.
ReturnResult ==
    /\ pc = "loop"
    /\ i = a_rows
    /\ entry = "lib"
    /\ pc' = "done"
    /\ outcome' = Returned(0)
    /\ UNCHANGED <<entry, argv, left, right, a, b, result, i, k, j, heap, heap0, stdout>>

\* ---------------------------------------------------------------- printing

RECURSIVE Digits(_)
Digits(n) == IF n < 10 THEN 1 ELSE 1 + Digits(n \div 10)

RECURSIVE Pow10(_)
Pow10(e) == IF e = 0 THEN 1 ELSE 10 * Pow10(e - 1)

RECURSIVE StripZeros(_)
StripZeros(n) == IF n # 0 /\ n % 10 = 0 THEN StripZeros(n \div 10) ELSE n

\* n / d rounded to the nearest integer, halves to the even one.
RoundHalfEven(n, d) ==
    LET q == n \div d
        r == n % d
    IN  IF 2 * r > d \/ (2 * r = d /\ q % 2 = 1) THEN q + 1 ELSE q

RECURSIVE PadDigits(_, _)
PadDigits(n, width) ==
    IF width = 0 THEN "" ELSE PadDigits(n \div 10, width - 1) \o ToString(n % 10)

\* The exponent form of %g for m * 10^(e-5), m of six digits: the mantissa
\* without its trailing zeros, and an exponent of at least two digits.
Scientific(m, e) ==
    LET lead == m \div 100000
        t == StripZeros(m)
        w == Digits(t) - 1
        fracText == IF w = 0 THEN "" ELSE "." \o PadDigits(t % Pow10(w), w)
        expText == IF e < 10 THEN "0" \o ToString(e) ELSE ToString(e)
    IN  ToString(lead) \o fracText \o "e+" \o expText

\* format(n, "g") for a natural number: six significant digits.
FormatNat(n) ==
    IF n < 1000000 THEN ToString(n)
    ELSE LET e == Digits(n) - 1
             m == RoundHalfEven(n, Pow10(e - 5))
         IN  IF m = 1000000 THEN Scientific(100000, e + 1) ELSE Scientific(m, e)

\* f"{val:g}": an int is formatted as the float it converts to.
FormatG(x) ==
    IF x.k = "nan" THEN "nan"
    ELSE IF x.k = "inf" THEN (IF x.v < 0 THEN "-inf" ELSE "inf")
    ELSE IF x.k = "nzero" THEN "-0"
    ELSE IF x.v < 0 THEN "-" \o FormatNat(-x.v)
    ELSE FormatNat(x.v)

RECURSIVE JoinSpace(_)
JoinSpace(words) ==
    IF Len(words) = 0 THEN ""
    ELSE IF Len(words) = 1 THEN words[1]
    ELSE words[1] \o " " \o JoinSpace(Tail(words))

\* _print_matrix: one line for each row.
PrintMatrix(h, m) ==
    [p \in 1..Len(Deref(h, m)) |->
        JoinSpace([q \in 1..Len(Deref(h, m)[p]) |-> FormatG(Deref(h, m)[p][q])])]

\* The three lines main prints for a wrong number of arguments (the
\* multiplication sign of the last line is written x).
UsageText ==
    << "Usage:",
       "  python main.py                          # demo",
       "  python main.py '<A_json>' '<B_json>'    # multiply AxB" >>

\* ------------------------------------------------------------------ inputs

\* The description of a list given to the program: of a row, and of a
\* matrix.  A position that holds no list holds the value val.
Row(cells) == [islist |-> TRUE, val |-> NoneV, cells |-> cells]
NotRow(v) == [islist |-> FALSE, val |-> v, cells |-> <<>>]
Matrix(rows) == [islist |-> TRUE, val |-> NoneV, rows |-> rows, share |-> FALSE]
SharedRows(rows) == [islist |-> TRUE, val |-> NoneV, rows |-> rows, share |-> TRUE]
Scalar(v) == [islist |-> FALSE, val |-> v, rows |-> <<>>, share |-> FALSE]

\* The matrix of ints with the given rows.
IntMatrix(m) ==
    Matrix([p \in 1..Len(m) |-> Row([q \in 1..Len(m[p]) |-> IntV(m[p][q])])])

\* The object at address 1: a list that a row may hold as an element.
BaseHeap == << <<IntV(1)>> >>

\* The heap with the lists of description d, and the value d describes.
\* With d.share every row is one and the same list object.
Build(h, d) ==
    IF ~d.islist THEN [heap |-> h, value |-> d.val]
    ELSE LET lists == SelectSeq(d.rows, LAMBDA r : r.islist)
             objs == IF d.share THEN <<d.rows[1].cells>>
                     ELSE [p \in 1..Len(lists) |-> lists[p].cells]
             addr(p) == IF d.share THEN Len(h) + 1
                        ELSE Len(h) + Cardinality({q \in 1..p : d.rows[q].islist})
         IN  Alloc(h \o objs,
                   [p \in 1..Len(d.rows) |->
                       IF d.rows[p].islist THEN ListRef(addr(p)) ELSE d.rows[p].val])

\* json.loads on the arguments the model passes: the decoded value, or the
\* detail of the JSONDecodeError.
JsonLoads(arg) ==
    CASE arg = "[[1,2],[3,4]]" ->
           [ok |-> TRUE, detail |-> "", desc |-> IntMatrix(<< <<1, 2>>, <<3, 4>> >>)]
      [] arg = "[[5,6],[7,8]]" ->
           [ok |-> TRUE, detail |-> "", desc |-> IntMatrix(<< <<5, 6>>, <<7, 8>> >>)]
      [] arg = "[[1,2,3],[4,5,6]]" ->
           [ok |-> TRUE, detail |-> "", desc |-> IntMatrix(<< <<1, 2, 3>>, <<4, 5, 6>> >>)]
      [] arg = "[[0,2]]" ->
           [ok |-> TRUE, detail |-> "", desc |-> IntMatrix(<< <<0, 2>> >>)]
      [] arg = "[[1],[3]]" ->
           [ok |-> TRUE, detail |-> "", desc |-> IntMatrix(<< <<1>>, <<3>> >>)]
      [] arg = "[[1,2],[3]]" ->
           [ok |-> TRUE, detail |-> "", desc |-> IntMatrix(<< <<1, 2>>, <<3>> >>)]
      [] arg = "[[2.0,-1]]" ->
           [ok |-> TRUE, detail |-> "", desc |-> Matrix(<< Row(<<FloatV(2), IntV(-1)>>) >>)]
      [] arg = "[[NaN],[-0.0]]" ->
           [ok |-> TRUE, detail |-> "", desc |-> Matrix(<< Row(<<NaN>>), Row(<<NegZero>>) >>)]
      [] arg = "[[true]]" ->
           [ok |-> TRUE, detail |-> "", desc |-> Matrix(<< Row(<<BoolV(1)>>) >>)]
      [] arg = "[[null]]" ->
           [ok |-> TRUE, detail |-> "", desc |-> Matrix(<< Row(<<NoneV>>) >>)]
      [] arg = "[1,2]" ->
           [ok |-> TRUE, detail |-> "", desc |-> Matrix(<< NotRow(IntV(1)), NotRow(IntV(2)) >>)]
      [] arg = "[]" ->
           [ok |-> TRUE, detail |-> "", desc |-> Matrix(<< >>)]
      [] arg = "5" ->
           [ok |-> TRUE, detail |-> "", desc |-> Scalar(IntV(5))]
      [] arg = "{}" ->
           [ok |-> TRUE, detail |-> "", desc |-> Scalar(DictV)]
      [] arg = "[[1,2" ->
           [ok |-> FALSE, detail |-> "Expecting ',' delimiter: line 1 column 6 (char 5)",
            desc |-> Scalar(NoneV)]
      [] arg = "" ->
           [ok |-> FALSE, detail |-> "Expecting value: line 1 column 1 (char 0)",
            desc |-> Scalar(NoneV)]

JsonArgs ==
    { "[[1,2],[3,4]]", "[[5,6],[7,8]]", "[[1,2,3],[4,5,6]]", "[[0,2]]", "[[1],[3]]",
      "[[1,2],[3]]", "[[2.0,-1]]", "[[NaN],[-0.0]]", "[[true]]", "[[null]]", "[1,2]",
      "[]", "5", "{}", "[[1,2", "" }

\* The shapes of at most MaxCells cells.
Shapes == {sh \in (1..MaxCells) \X (1..MaxCells) : sh[1] * sh[2] <= MaxCells}

\* Every matrix of the ints 0 and 1 of those shapes.
ZeroOneMatrices ==
    UNION {{Matrix([p \in 1..sh[1] |-> Row(m[p])]) :
               m \in [1..sh[1] -> [1..sh[2] -> {IntV(0), IntV(1)}]]} : sh \in Shapes}

\* Numbers around zero and the special floats.
SpecialValues == {IntV(0), NegZero, IntV(-1), FloatV(2), NaN, Inf(-1)}

\* 1x2 and 2x1 matrices of them.
SpecialMatrices ==
    {Matrix(<< Row(<<x, y>>) >>) : x, y \in SpecialValues}
        \cup {Matrix(<< Row(<<x>>), Row(<<y>>) >>) : x, y \in SpecialValues}

\* What may stand where a row is expected.
RawRows ==
    { NotRow(IntV(7)), NotRow(StrV), Row(<< >>), Row(<<IntV(1)>>), Row(<<BoolV(1)>>),
      Row(<<IntV(1), IntV(1)>>), Row(<<IntV(1), StrV>>), Row(<<ListRef(1)>>) }

\* Inputs that are no matrix, lists of one and of two raw rows, and the
\* empty list.
RawInputs ==
    {Scalar(StrV), Scalar(IntV(5)), Scalar(NoneV), Scalar(DictV), Matrix(<< >>)}
        \cup {Matrix(<<r>>) : r \in RawRows}
        \cup {Matrix(<<r1, r2>>) : r1, r2 \in RawRows}

\* Matrices whose rows are one list object.
SharedInputs ==
    { SharedRows(<< Row(<<IntV(1), IntV(1)>>), Row(<<IntV(1), IntV(1)>>) >>),
      SharedRows(<< Row(<<IntV(0), IntV(1)>>), Row(<<IntV(0), IntV(1)>>) >>) }

Inputs == ZeroOneMatrices \cup SpecialMatrices \cup RawInputs \cup SharedInputs

\* The command lines: the program name and up to MaxArgs arguments; every
\* pair of JsonArgs, and for the other counts the arguments of UsageArgs.
MaxArgs == 3
UsageArgs == {"[[1,2],[3,4]]", "5"}
Argvs ==
    {<< >>}
        \cup {<<"main.py", x, y>> : x, y \in JsonArgs}
        \cup UNION {{<<"main.py">> \o args : args \in [1..n -> UsageArgs]} :
                       n \in (0..MaxArgs) \ {2}}

\* ----------------------------------------------------------- specification

Idle ==
    /\ a = NoneV /\ b = NoneV /\ result = NoneV
    /\ i = 0 /\ k = 0 /\ j = 0
    /\ stdout = << >>
    /\ outcome = NoOutcome

\* multiply_matrices(left, right) is called on two of the inputs, which are
\* one and the same object when same holds.
InitLib ==
    /\ entry = "lib"
    /\ argv = << >>
    /\ pc = "validate_left"
    /\ \E L \in Inputs, R \in Inputs, same \in BOOLEAN :
          /\ same => (L = R /\ L.islist)
          /\ LET bl == Build(BaseHeap, L)
                 br == IF same THEN bl ELSE Build(bl.heap, R)
             IN  /\ left = bl.value
                 /\ right = br.value
                 /\ heap = br.heap
    /\ heap0 = heap
    /\ Idle

\* main(argv) is called.
InitCli ==
    /\ entry = "cli"
    /\ argv \in Argvs
    /\ pc = "main"
    /\ left = NoneV /\ right = NoneV
    /\ heap = BaseHeap
    /\ heap0 = heap
    /\ Idle

Init == InitLib \/ InitCli

DispatchAtLeastTwo(args) ==
    IF Len(args) = 1 THEN "demo" ELSE IF Len(args) >= 3 THEN "two" ELSE "usage"

\* The branch main takes.
Dispatch(args) ==
    IF Len(args) = 1 THEN "demo" ELSE IF Len(args) = 3 THEN "two" ELSE "usage"

DemoLeft == IntMatrix(<< <<1, 2, 3>>, <<4, 5, 6>> >>)
DemoRight == IntMatrix(<< <<7, 8>>, <<9, 10>>, <<11, 12>> >>)

\* No arguments: the demonstration matrices are built and multiplied.
RunDemo ==
    /\ pc = "main"
    /\ Dispatch(argv) = "demo"
    /\ LET bl == Build(heap, DemoLeft)
           br == Build(bl.heap, DemoRight)
       IN  /\ left' = bl.value
           /\ right' = br.value
           /\ heap' = br.heap
           /\ heap0' = br.heap
    /\ pc' = "validate_left"
    /\ UNCHANGED <<entry, argv, a, b, result, i, k, j, stdout, outcome>>

\* Two arguments: the first is loaded.
TwoArguments ==
    /\ pc = "main"
    /\ Dispatch(argv) = "two"
    /\ pc' = "load_left"
    /\ UNCHANGED <<entry, argv, left, right, a, b, result, i, k, j, heap, heap0,
                   stdout, outcome>>

\* Any other count: the usage text, and exit code 2.
PrintUsage ==
    /\ pc = "main"
    /\ Dispatch(argv) = "usage"
    /\ stdout' = UsageText
    /\ outcome' = Returned(2)
    /\ pc' = "done"
    /\ UNCHANGED <<entry, argv, left, right, a, b, result, i, k, j, heap, heap0>>

\* _load_matrix_from_json_arg(arg, name): SystemExit with a message, or the
\* validated matrix.
LoadMatrixFromJsonArg(h, arg, name) ==
    LET parsed == JsonLoads(arg)
        built == Build(h, parsed.desc)
        valid == ValidateMatrix(built.heap, built.value, name)
    IN  IF ~parsed.ok
        THEN [exit |-> TRUE, heap |-> h, value |-> NoneV,
              msg |-> "Failed to parse " \o name \o " as JSON: " \o parsed.detail]
        ELSE IF valid.exc.type \in {"TypeError", "ValueError"}
        THEN [exit |-> TRUE, heap |-> h, value |-> NoneV, msg |-> valid.exc.msg]
        ELSE [exit |-> FALSE, heap |-> valid.heap, value |-> valid.value, msg |-> ""]

\* a = _load_matrix_from_json_arg(argv[1], "left")
LoadLeft ==
    /\ pc = "load_left"
    /\ LET r == LoadMatrixFromJsonArg(heap, argv[2], "left")
       IN  IF r.exit
           THEN /\ outcome' = Exited(r.msg)
                /\ pc' = "done"
                /\ UNCHANGED <<left, heap>>
           ELSE /\ left' = r.value
                /\ heap' = r.heap
                /\ pc' = "load_right"
                /\ UNCHANGED outcome
    /\ UNCHANGED <<entry, argv, right, a, b, result, i, k, j, heap0, stdout>>

\* b = _load_matrix_from_json_arg(argv[2], "right"), and the call of
\* multiply_matrices(a, b).
LoadRight ==
    /\ pc = "load_right"
    /\ LET r == LoadMatrixFromJsonArg(heap, argv[3], "right")
       IN  IF r.exit
           THEN /\ outcome' = Exited(r.msg)
                /\ pc' = "done"
                /\ UNCHANGED <<right, heap, heap0>>
           ELSE /\ right' = r.value
                /\ heap' = r.heap
                /\ heap0' = r.heap
                /\ pc' = "validate_left"
                /\ UNCHANGED outcome
    /\ UNCHANGED <<entry, argv, left, a, b, result, i, k, j, stdout>>

\* main after multiply_matrices returned: _print_matrix(c) and return 0.
PrintResult ==
    /\ pc = "loop"
    /\ i = a_rows
    /\ entry = "cli"
    /\ stdout' = PrintMatrix(heap, result)
    /\ outcome' = Returned(0)
    /\ pc' = "done"
    /\ UNCHANGED <<entry, argv, left, right, a, b, result, i, k, j, heap, heap0>>

Next ==
    \/ ValidateLeft
    \/ ValidateRight
    \/ ShapeMismatch
    \/ AllocateResult
    \/ SkipZero
    \/ Accumulate
    \/ ReturnResult
    \/ RunDemo
    \/ TwoArguments
    \/ PrintUsage
    \/ LoadLeft
    \/ LoadRight
    \/ PrintResult

Spec == Init /\ [][Next]_vars

\* ------------------------------------------------------------------ claims

\* What the claims say of an input, read off the heap at the call.
IsNumber(x) == x.t \in {"int", "float"}
IsListOfLists(h, m) ==
    m.t = "list" /\ \A p \in 1..Len(h[m.v]) : h[m.v][p].t = "list"
RowLengths(h, m) == {Len(h[h[m.v][p].v]) : p \in 1..Len(h[m.v])}
AllNumbers(h, m) ==
    \A p \in 1..Len(h[m.v]) : \A q \in 1..Len(h[h[m.v][p].v]) : IsNumber(h[h[m.v][p].v][q])
WellFormed(h, m) ==
    /\ IsListOfLists(h, m)
    /\ Len(h[m.v]) >= 1
    /\ 0 \notin RowLengths(h, m)
    /\ Cardinality(RowLengths(h, m)) = 1
    /\ AllNumbers(h, m)
IntegerMatrix(h, m) ==
    /\ WellFormed(h, m)
    /\ \A p \in 1..Len(h[m.v]) : \A q \in 1..Len(h[h[m.v][p].v]) : h[h[m.v][p].v][q].t = "int"
NRows(h, m) == Len(h[m.v])
NCols(h, m) == Len(h[h[m.v][1].v])
Cells(h, m) == [p \in 1..Len(h[m.v]) |-> h[h[m.v][p].v]]

\* multiply_matrices was called (under main, once both arguments are
\* loaded), and the call is over.
Called == entry = "lib" \/ (left # NoneV /\ right # NoneV)
Finished == pc = "done" /\ Called
ReturnedResult == pc = "done" /\ outcome.kind = "return" /\ result # NoneV

\* The sum over kk in 1..n of A[r][kk].v * B[kk][c].v.
RECURSIVE DotProduct(_, _, _, _, _)
DotProduct(A, B, r, c, n) ==
    IF n = 0 THEN 0 ELSE DotProduct(A, B, r, c, n - 1) + A[r][n].v * B[n][c].v

\* C1: for well-formed integer matrices A (m x n) and B (n x p) the call
\* returns, and the result has m rows of p columns whose cell [r][c] is the
\* integer sum over kk of A[r][kk] * B[kk][c].
C1_StandardProduct ==
    (Finished /\ IntegerMatrix(heap0, left) /\ IntegerMatrix(heap0, right)
        /\ NCols(heap0, left) = NRows(heap0, right))
    => /\ ReturnedResult
       /\ LET A == Cells(heap0, left)
              B == Cells(heap0, right)
              C == Cells(heap, result)
          IN  /\ Len(C) = Len(A)
              /\ \A r \in 1..Len(A) :
                    /\ Len(C[r]) = Len(B[1])
                    /\ \A c \in 1..Len(B[1]) :
                          C[r][c] = IntV(DotProduct(A, B, r, c, Len(B)))

C1_Witness ==
    /\ ReturnedResult
    /\ entry = "lib"
    /\ Cells(heap0, left) = << <<IntV(0), IntV(1)>>, <<IntV(1), IntV(1)>> >>
    /\ Cells(heap0, right) = << <<IntV(1), IntV(1)>>, <<IntV(0), IntV(1)>> >>
    /\ Cells(heap, result) = << <<IntV(0), IntV(1)>>, <<IntV(1), IntV(2)>> >>

\* The unconditional triple loop: cell [r][c] after the iterations 1..n of
\* kk, each adding A[r][kk] * B[kk][c] to the cell, which starts as the int 0.
RECURSIVE NaiveCell(_, _, _, _, _)
NaiveCell(A, B, r, c, n) ==
    IF n = 0 THEN IntV(0)
    ELSE Add(NaiveCell(A, B, r, c, n - 1), Mul(A[r][n], B[n][c]))

\* Two numbers are the same value: equal as Python compares them, or both nan.
SameValue(x, y) ==
    \/ x.k = "nan" /\ y.k = "nan"
    \/ x.k = "inf" /\ y.k = "inf" /\ x.v = y.v
    \/ x.k \in {"fin", "nzero"} /\ y.k \in {"fin", "nzero"} /\ x.v = y.v

ResultSameAsNaive ==
    LET A == Cells(heap, a)
        B == Cells(heap, b)
        C == Cells(heap, result)
    IN  \A r \in 1..Len(A) : \A c \in 1..Len(B[1]) :
           SameValue(C[r][c], NaiveCell(A, B, r, c, Len(B)))

\* Every row of the right matrix that the zero-skip avoids holds finite
\* numbers only.
SkippedRowsFinite ==
    LET A == Cells(heap, a)
        B == Cells(heap, b)
    IN  \A r \in 1..Len(A) : \A kk \in 1..Len(B) :
           IsZero(A[r][kk]) => \A c \in 1..Len(B[1]) : B[kk][c].k \in {"fin", "nzero"}

\* C2 as stated: whatever the right matrix holds, the result is the same
\* as the result of the unconditional triple loop.
C2_SkipUnobservable == ReturnedResult => ResultSameAsNaive

\* C2 as amended: the result is the same value as the result of the
\* unconditional triple loop when the rows of the right matrix that the skip
\* avoids hold finite numbers only; and it is the very same matrix, int for
\* int, when both matrices hold ints only.
C2_SkipUnobservableFinite ==
    ReturnedResult =>
       /\ SkippedRowsFinite => ResultSameAsNaive
       /\ (IntegerMatrix(heap, a) /\ IntegerMatrix(heap, b)) =>
             \A r \in 1..NRows(heap, a) : \A c \in 1..NCols(heap, b) :
                Cells(heap, result)[r][c]
                    = NaiveCell(Cells(heap, a), Cells(heap, b), r, c, NRows(heap, b))

C2_Witness ==
    /\ ReturnedResult
    /\ Cells(heap, a) = << <<IntV(0), IntV(-1)>> >>
    /\ Cells(heap, b) = << <<FloatV(2)>>, <<IntV(-1)>> >>
    /\ Cells(heap, result) = << <<IntV(1)>> >>

\* C3: for two valid matrices the call raises the ValueError that states
\* both shapes, and sets no result, exactly when the columns of left differ
\* from the rows of right; otherwise it returns.
C3_ShapeErrorIffMismatch ==
    (Finished /\ WellFormed(heap0, left) /\ WellFormed(heap0, right)) =>
       LET R1 == NRows(heap0, left)
           C1 == NCols(heap0, left)
           R2 == NRows(heap0, right)
           C2 == NCols(heap0, right)
       IN  IF C1 # R2
           THEN /\ outcome.kind = "raise"
                /\ outcome.type = "ValueError"
                /\ outcome.msg =
                      "Incompatible shapes for multiplication: left is "
                          \o ToString(R1) \o "x" \o ToString(C1) \o ", right is "
                          \o ToString(R2) \o "x" \o ToString(C2)
                /\ result = NoneV
           ELSE ReturnedResult

C3_Witness ==
    /\ Finished
    /\ WellFormed(heap0, left) /\ WellFormed(heap0, right)
    /\ NRows(heap0, left) = 2 /\ NCols(heap0, left) = 3
    /\ outcome.type = "ValueError"
    /\ outcome.msg = "Incompatible shapes for multiplication: left is 2x3, right is 2x2"

\* The rows of m that are lists, by position, and what they hold.
ListRows(h, m) == {p \in 1..Len(h[m.v]) : h[m.v][p].t = "list"}
BadRow(h, m, p) ==
    h[m.v][p].t = "list" /\ \E q \in 1..Len(h[h[m.v][p].v]) : ~IsNumber(h[h[m.v][p].v][q])
HasBadElement(h, m) == m.t = "list" /\ \E p \in 1..Len(h[m.v]) : BadRow(h, m, p)
HasNonRow(h, m) == m.t = "list" /\ \E p \in 1..Len(h[m.v]) : h[m.v][p].t # "list"
ListRowLengths(h, m) == {Len(h[h[m.v][p].v]) : p \in ListRows(h, m)}
NonRectangular(h, m) == IsListOfLists(h, m) /\ Cardinality(RowLengths(h, m)) > 1

\* The texts of the validator's errors, as the claims give them.
TextNotSequence(name) == name \o " must be a sequence of sequences of numbers"
TextNotNumber(name) == name \o " must contain only numbers (int or float)"
TextNoRows(name) == name \o " must have at least one row"
TextEmptyRow(name) == name \o " rows must be non-empty"
TextNotRectangular(name) == name \o " must be rectangular (all rows same length)"

RaisedWith(type, msg) ==
    /\ pc = "done"
    /\ outcome = [kind |-> "raise", code |-> 1, type |-> type, msg |-> msg]
    /\ result = NoneV

\* The error C4 as amended names for a non-rectangular matrix m: the
\* TypeError of an element that is no number, else the ValueError of an
\* empty row, else the ValueError of the row lengths.
NonRectangularError(h, m, name) ==
    IF ~AllNumbers(h, m) THEN RaisedWith("TypeError", TextNotNumber(name))
    ELSE IF 0 \in RowLengths(h, m) THEN RaisedWith("ValueError", TextEmptyRow(name))
    ELSE RaisedWith("ValueError", TextNotRectangular(name))

\* C4 as stated: a non-rectangular left, or a non-rectangular right after
\* a valid left, fails with a ValueError, whatever its elements are.
C4_NonRectangularIsShapeError ==
    (entry = "lib" /\ pc = "done") =>
       /\ NonRectangular(heap0, left) =>
             outcome.kind = "raise" /\ outcome.type = "ValueError"
       /\ (WellFormed(heap0, left) /\ NonRectangular(heap0, right)) =>
             outcome.kind = "raise" /\ outcome.type = "ValueError"

\* C4 as amended: a non-rectangular matrix always fails; with a ValueError
\* ("rows must be non-empty" when a row is empty, else "must be rectangular")
\* when all its elements are numbers, and with the TypeError "must contain
\* only numbers" when one of them is a boolean or no number.
C4_NonRectangularFails ==
    /\ (entry = "lib" /\ pc # "validate_left" /\ NonRectangular(heap0, left)) =>
          NonRectangularError(heap0, left, "left")
    /\ (entry = "lib" /\ pc \notin {"validate_left", "validate_right"}
           /\ WellFormed(heap0, left) /\ NonRectangular(heap0, right)) =>
          NonRectangularError(heap0, right, "right")

C4_Witness ==
    /\ entry = "lib" /\ pc = "done"
    /\ NonRectangular(heap0, left)
    /\ \E p \in 1..NRows(heap0, left) : BoolV(1) \in {Cells(heap0, left)[p][q] : q \in 1..Len(Cells(heap0, left)[p])}
    /\ outcome.type = "TypeError"
    /\ outcome.msg = "left must contain only numbers (int or float)"

\* C5: a matrix with an element that is a boolean or no number fails with a
\* TypeError whose message starts with the label of the matrix, and the
\* matrices the validator returns hold ints and floats only.
C5_ContentError ==
    /\ (entry = "lib" /\ pc # "validate_left" /\ HasBadElement(heap0, left)) =>
          /\ a = NoneV
          /\ \/ RaisedWith("TypeError", "left must contain only numbers (int or float)")
             \/ RaisedWith("TypeError", "left must be a sequence of sequences of numbers")
    /\ (entry = "lib" /\ a # NoneV /\ pc # "validate_right" /\ HasBadElement(heap0, right)) =>
          /\ b = NoneV
          /\ \/ RaisedWith("TypeError", "right must contain only numbers (int or float)")
             \/ RaisedWith("TypeError", "right must be a sequence of sequences of numbers")
    /\ a # NoneV => AllNumbers(heap, a)
    /\ b # NoneV => AllNumbers(heap, b)
    /\ (entry = "cli" /\ left # NoneV) => AllNumbers(heap, left)
    /\ (entry = "cli" /\ right # NoneV) => AllNumbers(heap, right)

C5_Witness ==
    /\ entry = "lib" /\ pc = "done"
    /\ IsListOfLists(heap0, left)
    /\ Cells(heap0, left) = << <<BoolV(1)>> >>
    /\ outcome.type = "TypeError"
    /\ outcome.msg = "left must contain only numbers (int or float)"

\* The first position of m that holds no list.
FirstNonRow(h, m) ==
    CHOOSE p \in 1..Len(h[m.v]) :
       h[m.v][p].t # "list" /\ \A p2 \in 1..(p - 1) : h[m.v][p2].t = "list"

\* C6 as stated: an element of the top level that is no row fails with a
\* ValueError and the message "must be a sequence of sequences of numbers".
C6_NonRowIsShapeError ==
    (entry = "lib" /\ pc = "done" /\ HasNonRow(heap0, left)) =>
       RaisedWith("ValueError", TextNotSequence("left"))

\* C6 as amended: it fails with a TypeError; the message is "must be a
\* sequence of sequences of numbers", unless a row before it holds a boolean
\* or a value that is no number, and then "must contain only numbers".
C6_NonRowIsContentError ==
    /\ (entry = "lib" /\ pc # "validate_left" /\ HasNonRow(heap0, left)) =>
          IF \E p \in 1..(FirstNonRow(heap0, left) - 1) : BadRow(heap0, left, p)
          THEN RaisedWith("TypeError", TextNotNumber("left"))
          ELSE RaisedWith("TypeError", TextNotSequence("left"))
    /\ (entry = "lib" /\ pc \notin {"validate_left", "validate_right"}
           /\ WellFormed(heap0, left) /\ HasNonRow(heap0, right)) =>
          IF \E p \in 1..(FirstNonRow(heap0, right) - 1) : BadRow(heap0, right, p)
          THEN RaisedWith("TypeError", TextNotNumber("right"))
          ELSE RaisedWith("TypeError", TextNotSequence("right"))

C6_Witness ==
    /\ entry = "lib" /\ pc = "done"
    /\ left.t = "list"
    /\ heap0[left.v] = <<StrV>>
    /\ outcome.type = "TypeError"
    /\ outcome.msg = "left must be a sequence of sequences of numbers"

\* C7: with two arguments, main ends by returning or by SystemExit; no
\* exception leaves main.
C7_NoUncaughtError ==
    (entry = "cli" /\ Len(argv) = 3 /\ pc = "done") => outcome.kind \in {"return", "exit"}

\* C8: by the number of arguments main runs the demonstration (58 64 /
\* 139 154, exit code 0), multiplies the two decoded arguments (exit code 0
\* when it returns), or prints the usage text alone, decoding, validating
\* and multiplying nothing, with exit code 2.
C8_Dispatch ==
    entry = "cli" =>
       /\ (Len(argv) = 1 /\ pc = "done") =>
             outcome = Returned(0) /\ stdout = <<"58 64", "139 154">>
       /\ (Len(argv) = 3 /\ pc = "done" /\ outcome.kind = "return") =>
             /\ outcome.code = 0
             /\ a # NoneV /\ b # NoneV /\ result # NoneV
             /\ Len(stdout) = NRows(heap, a)
             /\ (argv[2] = "[[1,2],[3,4]]" /\ argv[3] = "[[5,6],[7,8]]") =>
                   stdout = <<"19 22", "43 50">>
       /\ Len(argv) \notin {1, 3} =>
             /\ pc \in {"main", "done"}
             /\ heap = BaseHeap
             /\ left = NoneV /\ right = NoneV /\ a = NoneV /\ b = NoneV /\ result = NoneV
             /\ pc = "done" =>
                   /\ outcome = Returned(2)
                   /\ Len(stdout) = 3 /\ stdout[1] = "Usage:"

C8_Witness ==
    /\ entry = "cli" /\ pc = "done"
    /\ Len(argv) = 4
    /\ outcome = Returned(2)
    /\ stdout[1] = "Usage:"

\* The exception of a failed check, by the number the claim gives the check.
CheckError(n, name) ==
    CASE n = 1 -> [type |-> "TypeError", msg |-> TextNotSequence(name)]
      [] n = 2 -> [type |-> "TypeError", msg |-> TextNotSequence(name)]
      [] n = 3 -> [type |-> "TypeError", msg |-> TextNotNumber(name)]
      [] n = 4 -> [type |-> "ValueError", msg |-> TextNoRows(name)]
      [] n = 5 -> [type |-> "ValueError", msg |-> TextEmptyRow(name)]
      [] n = 6 -> [type |-> "ValueError", msg |-> TextNotRectangular(name)]
      [] OTHER -> [type |-> "none", msg |-> ""]

\* The checks that input m violates.
Violated(h, m) ==
    (IF m.t # "list" THEN {1} ELSE {})
        \cup (IF HasNonRow(h, m) THEN {2} ELSE {})
        \cup (IF HasBadElement(h, m) THEN {3} ELSE {})
        \cup (IF m.t = "list" /\ Len(h[m.v]) = 0 THEN {4} ELSE {})
        \cup (IF m.t = "list" /\ 0 \in ListRowLengths(h, m) THEN {5} ELSE {})
        \cup (IF m.t = "list" /\ Cardinality(ListRowLengths(h, m)) > 1 THEN {6} ELSE {})

Lowest(S) == IF S = {} THEN 0 ELSE CHOOSE n \in S : \A n2 \in S : n <= n2

\* The check that fails when checks 2 and 3 are made of each row in turn:
\* check 1, then the check that the first offending row violates, then the
\* lowest of 4, 5 and 6.
FirstInRowOrder(h, m) ==
    IF 1 \in Violated(h, m) THEN 1
    ELSE LET off == {p \in 1..Len(h[m.v]) : h[m.v][p].t # "list" \/ BadRow(h, m, p)}
         IN  IF off # {}
             THEN (IF h[m.v][Lowest(off)].t # "list" THEN 2 ELSE 3)
             ELSE Lowest(Violated(h, m))

\* After the validation of left (of right): the exception of check n was
\* raised, or for n = 0 the copy was returned.
LeftEndedWith(n) ==
    IF n = 0 THEN a # NoneV
    ELSE a = NoneV /\ RaisedWith(CheckError(n, "left").type, CheckError(n, "left").msg)
RightEndedWith(n) ==
    IF n = 0 THEN b # NoneV
    ELSE b = NoneV /\ RaisedWith(CheckError(n, "right").type, CheckError(n, "right").msg)

\* C9 as stated: the error raised is that of the lowest-numbered check the
\* input violates, and the input passes exactly when it violates none.
C9_LowestCheckFirst ==
    /\ (entry = "lib" /\ pc # "validate_left") =>
          LeftEndedWith(Lowest(Violated(heap0, left)))
    /\ (entry = "lib" /\ a # NoneV /\ pc # "validate_right") =>
          RightEndedWith(Lowest(Violated(heap0, right)))

\* C9 as amended: checks 2 and 3 are made together, row by row, so the
\* error is that of the first row that is no sequence (2) or holds a value
\* that is no number (3); check 1 comes before and checks 4, 5, 6 come
\* after, in that order; the input passes exactly when it violates none.
C9_RowOrderFailFast ==
    /\ (entry = "lib" /\ pc # "validate_left") =>
          LeftEndedWith(FirstInRowOrder(heap0, left))
    /\ (entry = "lib" /\ a # NoneV /\ pc # "validate_right") =>
          RightEndedWith(FirstInRowOrder(heap0, right))

C9_Witness ==
    /\ entry = "lib" /\ pc = "done"
    /\ left.t = "list"
    /\ Len(heap0[left.v]) = 2
    /\ BadRow(heap0, left, 1)
    /\ heap0[left.v][2] = IntV(7)
    /\ outcome.type = "TypeError"
    /\ outcome.msg = "left must contain only numbers (int or float)"

\* The addresses of the objects of matrix m: the list of rows and the rows.
RowAddrs(h, m) == {h[m.v][p].v : p \in 1..Len(h[m.v])}
Objects(h, m) == {m.v} \cup RowAddrs(h, m)
Old == 1..Len(heap0)

\* m is made of objects allocated after the call, one for each row.
Fresh(m) ==
    /\ Objects(heap, m) \cap Old = {}
    /\ Cardinality(Objects(heap, m)) = Len(heap[m.v]) + 1

\* Every object that existed at the call holds what it held; the copies a
\* and b are fresh and equal to left and right; the result is fresh and
\* shares no object with a or b.
C10_Frame ==
    /\ Len(heap) >= Len(heap0)
    /\ \A addr \in Old : heap[addr] = heap0[addr]
    /\ a # NoneV => Fresh(a) /\ Cells(heap, a) = Cells(heap0, left)
    /\ b # NoneV =>
          /\ Fresh(b) /\ Cells(heap, b) = Cells(heap0, right)
          /\ Objects(heap, b) \cap Objects(heap, a) = {}
    /\ result # NoneV =>
          /\ Fresh(result)
          /\ Objects(heap, result) \cap (Objects(heap, a) \cup Objects(heap, b)) = {}
    /\ (pc = "done" /\ outcome.kind = "raise") => result = NoneV

\* A step of the loops changes at most cell (i, j) of the result, read
\* through the result's rows, and nothing else.
C10_Step ==
    (pc = "loop" /\ pc' = "loop") =>
       /\ Len(heap') = Len(heap)
       /\ \A addr \in 1..Len(heap) :
             addr \notin RowAddrs(heap, result) => heap'[addr] = heap[addr]
       /\ \A p \in 1..NRows(heap, result) : \A q \in 1..Len(Cells(heap, result)[p]) :
             (p # i + 1 \/ q # j + 1) =>
                Cells(heap', result)[p][q] = Cells(heap, result)[p][q]

\* C10: the inputs are left unchanged, the validator's output is an equal
\* copy, every accumulation changes cell (i, j) of the result alone, and
\* the result shares no storage with the inputs nor between its rows.
C10_NoAliasing == []C10_Frame /\ [][C10_Step]_vars

C10_Witness ==
    /\ entry = "lib" /\ ReturnedResult
    /\ left = right
    /\ Cardinality(RowAddrs(heap0, left)) = 1
    /\ Cells(heap0, left) = << <<IntV(1), IntV(1)>>, <<IntV(1), IntV(1)>> >>
    /\ Cells(heap, result) = << <<IntV(2), IntV(2)>>, <<IntV(2), IntV(2)>> >>

====
